---- MODULE Spec2Model ----
(***************************************************************************)
(* Model of ds_rs::binary_tree (src/src/binary_tree.rs): the unbalanced    *)
(* binary search tree BinaryTree<T>, its Node<T> cells and its two         *)
(* traversal objects, Iter (borrowing) and IntoIter (owning).              *)
(*                                                                         *)
(* The state machine is a single-threaded client that owns one tree and    *)
(* calls the public operations on it in any order Rust's ownership rules   *)
(* allow: nothing mutates the tree while an Iter borrows it, and the tree  *)
(* is gone once into_iter(self) has consumed it.                           *)
(*                                                                         *)
(* Option<X> is modelled as a sequence of length at most one:              *)
(* None is << >> and Some(x) is << x >>.                                   *)
(***************************************************************************)
EXTENDS Integers, Sequences, FiniteSets, TLC

\* ------------------------------------------------------------------ bounds

\* The totally ordered values of the element type T are the integers
\* 0 .. NumValues-1.
NumValues == 4

\* The longest Vec or iterator handed to from and from_iter.
MaxVecLen == 3

\* The longest iterator handed to extend.
MaxExtendLen == 2

\* Width of usize in bits.  The real width (32 or 64) puts the wrap of
\* Iter::index out of reach of any finite check, so the model keeps the
\* arithmetic (index + 1 modulo 2^width) and scales the width down.
UsizeBits == 3

\* How many calls of next the client makes beyond the point of interest:
\* beyond the end of an IntoIter, and beyond the wrap of Iter::index.
ExtraNext == 2

Values == 0 .. (NumValues - 1)

UsizeModulus == 2 ^ UsizeBits

UsizeMax == UsizeModulus - 1

\* ------------------------------------------------------------------ Option

None == << >>

Some(x) == << x >>

is_some(o) == o # None

is_none(o) == o = None

unwrap(o) == o[1]

\* ------------------------------------------------------------------ T: PartialOrd

\* T is only PartialOrd.  Besides the chain 0 < 1 < ... < NumValues-1 the
\* model gives it two more values:
\*   Side  lies between the least and the greatest value of the chain and
\*         is incomparable with the values in between (a partial order
\*         in which some pairs have no order);
\*   NaN   is incomparable with every value, itself included (f64::NAN).
Side == NumValues

NaN == NumValues + 1

PartialValues == Values \cup {Side, NaN}

\* a.partial_cmp(&b).is_some()
Comparable(a, b) ==
    \/ a \in Values /\ b \in Values
    \/ a = Side /\ b \in {0, NumValues - 1, Side}
    \/ b = Side /\ a \in {0, NumValues - 1}

\* a.partial_cmp(&b): Option<Ordering>, as "Less" / "Equal" / "Greater",
\* or "None" when the two values are incomparable.
partial_cmp(a, b) ==
    IF ~Comparable(a, b) THEN "None"
    ELSE IF a = b THEN "Equal"
    ELSE IF a = Side THEN (IF b = 0 THEN "Greater" ELSE "Less")
    ELSE IF b = Side THEN (IF a = 0 THEN "Less" ELSE "Greater")
    ELSE IF a < b THEN "Less"
    ELSE "Greater"

usize_max(a, b) == IF a >= b THEN a ELSE b

\* ------------------------------------------------------------------ Node<T>

\* Node::new(value): a leaf.
Node_new(value) == [value |-> value, left |-> None, right |-> None]

\* set_left that writes the other slot.
set_left_writes_right(node, value) ==
    [node EXCEPT !.right = Some(Node_new(value))]

\* Node::set_left(&mut self, value): overwrites the left child with a leaf.
set_left(node, value) == [node EXCEPT !.left = Some(Node_new(value))]

\* set_right that writes the other slot.
set_right_writes_left(node, value) ==
    [node EXCEPT !.left = Some(Node_new(value))]

\* set_right that builds the node anew and loses its left child.
set_right_drops_left(node, value) ==
    [value |-> node.value, left |-> None, right |-> Some(Node_new(value))]

\* Node::set_right(&mut self, value): overwrites the right child with a leaf.
set_right(node, value) == [node EXCEPT !.right = Some(Node_new(value))]

\* ------------------------------------------------------------------ BinaryTree<T>

\* BinaryTree::new(): the empty tree.
new == [root |-> None, count |-> 0, height |-> 0]

\* The insert loop without `Ord::Equal => return` in its (None, None) arm:
\* an equal value falls through to set_right.
RECURSIVE insert_loop_keeps_equal(_, _, _)
insert_loop_keeps_equal(node, value, level) ==
    LET ord == partial_cmp(value, node.value)
        Attached(n) == [kind |-> "attached", node |-> n, level |-> level]
        GoLeft ==
            LET sub == insert_loop_keeps_equal(unwrap(node.left), value, level + 1)
            IN  [sub EXCEPT !.node = [node EXCEPT !.left = Some(sub.node)]]
        GoRight ==
            LET sub == insert_loop_keeps_equal(unwrap(node.right), value, level + 1)
            IN  [sub EXCEPT !.node = [node EXCEPT !.right = Some(sub.node)]]
    IN  IF ord = "None" THEN [kind |-> "panic", node |-> node, level |-> level]
        ELSE IF is_none(node.left) /\ is_none(node.right) THEN
            IF ord = "Less" THEN Attached(set_left(node, value))
            ELSE Attached(set_right(node, value))
        ELSE IF ord = "Equal" THEN
            [kind |-> "return", node |-> node, level |-> level]
        ELSE IF ord = "Less" THEN
            IF is_none(node.left) THEN Attached(set_left(node, value))
            ELSE GoLeft
        ELSE
            IF is_none(node.right) THEN Attached(set_right(node, value))
            ELSE GoRight

\* The loop of insert whose (Some(_), None) arm attaches a lesser value at
\* once, over the left child that is there.
RECURSIVE insert_loop_overwrites_left(_, _, _)
insert_loop_overwrites_left(node, value, level) ==
    LET ord == partial_cmp(value, node.value)
        Panic == [kind |-> "panic", node |-> node, level |-> level]
        Return == [kind |-> "return", node |-> node, level |-> level]
        Attached(n) == [kind |-> "attached", node |-> n, level |-> level]
        GoLeft ==
            LET sub == insert_loop_overwrites_left(unwrap(node.left), value, level + 1)
            IN  [sub EXCEPT !.node = [node EXCEPT !.left = Some(sub.node)]]
        GoRight ==
            LET sub == insert_loop_overwrites_left(unwrap(node.right), value, level + 1)
            IN  [sub EXCEPT !.node = [node EXCEPT !.right = Some(sub.node)]]
    IN  IF ord = "None" THEN Panic
        ELSE IF is_none(node.left) /\ is_none(node.right) THEN
            \* (None, None)
            CASE ord = "Equal" -> Return
              [] ord = "Less" -> Attached(set_left(node, value))
              [] ord = "Greater" -> Attached(set_right(node, value))
        ELSE IF is_none(node.left) /\ is_some(node.right) THEN
            \* (None, Some(_))
            CASE ord = "Equal" -> Return
              [] ord = "Less" -> Attached(set_left(node, value))
              [] ord = "Greater" -> GoRight
        ELSE IF is_some(node.left) /\ is_none(node.right) THEN
            \* (Some(_), None)
            CASE ord = "Equal" -> Return
              [] ord = "Less" -> Attached(set_left(node, value))
              [] ord = "Greater" -> Attached(set_right(node, value))
        ELSE
            \* (Some(_), Some(_))
            CASE ord = "Equal" -> Return
              [] ord = "Less" -> GoLeft
              [] ord = "Greater" -> GoRight

\* The loop of BinaryTree::insert, started at the node the cursor `root`
\* points to, with the loop variable `level`.  The code moves a mutable
\* cursor down the tree and writes through it; since every node is owned by
\* exactly one parent, that is the same as rebuilding the path to the node.
\* The result is how the loop ended ("return" on an equal value, "attached"
\* after set_left / set_right, "panic" when unwrap() meets None), the node
\* as the loop leaves it, and the value of `level` at that moment.
RECURSIVE insert_loop(_, _, _)
insert_loop(node, value, level) ==
    LET ord == partial_cmp(value, node.value)
        Panic == [kind |-> "panic", node |-> node, level |-> level]
        Return == [kind |-> "return", node |-> node, level |-> level]
        Attached(n) == [kind |-> "attached", node |-> n, level |-> level]
        GoLeft ==
            LET sub == insert_loop(unwrap(node.left), value, level + 1)
            IN  [sub EXCEPT !.node = [node EXCEPT !.left = Some(sub.node)]]
        GoRight ==
            LET sub == insert_loop(unwrap(node.right), value, level + 1)
            IN  [sub EXCEPT !.node = [node EXCEPT !.right = Some(sub.node)]]
    IN  IF ord = "None" THEN Panic
        ELSE IF is_none(node.left) /\ is_none(node.right) THEN
            \* (None, None)
            CASE ord = "Equal" -> Return
              [] ord = "Less" -> Attached(set_left(node, value))
              [] ord = "Greater" -> Attached(set_right(node, value))
        ELSE IF is_none(node.left) /\ is_some(node.right) THEN
            \* (None, Some(_))
            CASE ord = "Equal" -> Return
              [] ord = "Less" -> Attached(set_left(node, value))
              [] ord = "Greater" -> GoRight
        ELSE IF is_some(node.left) /\ is_none(node.right) THEN
            \* (Some(_), None)
            CASE ord = "Equal" -> Return
              [] ord = "Less" -> GoLeft
              [] ord = "Greater" -> Attached(set_right(node, value))
        ELSE
            \* (Some(_), Some(_))
            CASE ord = "Equal" -> Return
              [] ord = "Less" -> GoLeft
              [] ord = "Greater" -> GoRight

\* insert that sets height to the level of the new leaf, without max.
insert_height_is_level(self, value) ==
    IF is_some(self.root) THEN
        LET res == insert_loop(unwrap(self.root), value, 2)
        IN  [root |-> Some(res.node),
             count |-> IF res.kind = "attached" THEN self.count + 1
                       ELSE self.count,
             height |-> IF res.kind = "attached" THEN res.level
                        ELSE self.height,
             panicked |-> res.kind = "panic"]
    ELSE
        [root |-> Some(Node_new(value)), count |-> 1, height |-> 1,
         panicked |-> FALSE]

\* insert that increments count before it knows the value is new.
insert_counts_duplicates(self, value) ==
    IF is_some(self.root) THEN
        LET res == insert_loop(unwrap(self.root), value, 2)
        IN  [root |-> Some(res.node),
             count |-> IF res.kind = "panic" THEN self.count
                       ELSE self.count + 1,
             height |-> IF res.kind = "attached"
                        THEN usize_max(self.height, res.level)
                        ELSE self.height,
             panicked |-> res.kind = "panic"]
    ELSE
        [root |-> Some(Node_new(value)), count |-> 1, height |-> 1,
         panicked |-> FALSE]

\* insert with unwrap_or(Ordering::Greater)-like handling: an undefined
\* comparison is not reported, the call returns as if nothing was wrong.
insert_swallows_incomparable(self, value) ==
    IF is_some(self.root) THEN
        LET res == insert_loop(unwrap(self.root), value, 2)
        IN  [root |-> Some(res.node),
             count |-> IF res.kind = "attached" THEN self.count + 1
                       ELSE self.count,
             height |-> IF res.kind = "attached"
                        THEN usize_max(self.height, res.level)
                        ELSE self.height,
             panicked |-> FALSE]
    ELSE
        IF partial_cmp(value, value) = "None" THEN
            [root |-> self.root, count |-> self.count,
             height |-> self.height, panicked |-> TRUE]
        ELSE
            [root |-> Some(Node_new(value)), count |-> 1, height |-> 1,
             panicked |-> FALSE]

\* insert that increments count on entry, before the walk.
insert_counts_first(self, value) ==
    IF is_some(self.root) THEN
        LET res == insert_loop(unwrap(self.root), value, 2)
        IN  [root |-> Some(res.node),
             count |-> IF res.kind = "return" THEN self.count
                       ELSE self.count + 1,
             height |-> IF res.kind = "attached"
                        THEN usize_max(self.height, res.level)
                        ELSE self.height,
             panicked |-> res.kind = "panic"]
    ELSE
        IF partial_cmp(value, value) = "None" THEN
            [root |-> self.root, count |-> self.count + 1,
             height |-> self.height, panicked |-> TRUE]
        ELSE
            [root |-> Some(Node_new(value)), count |-> 1, height |-> 1,
             panicked |-> FALSE]

\* insert without the self-comparison of its empty-tree arm.
insert_root_unchecked(self, value) ==
    IF is_some(self.root) THEN
        LET res == insert_loop(unwrap(self.root), value, 2)
        IN  [root |-> Some(res.node),
             count |-> IF res.kind = "attached" THEN self.count + 1
                       ELSE self.count,
             height |-> IF res.kind = "attached"
                        THEN usize_max(self.height, res.level)
                        ELSE self.height,
             panicked |-> res.kind = "panic"]
    ELSE
        [root |-> Some(Node_new(value)), count |-> 1, height |-> 1,
         panicked |-> FALSE]

\* insert whose empty-tree arm leaves height as it was.
insert_root_keeps_height(self, value) ==
    IF is_some(self.root) THEN
        LET res == insert_loop(unwrap(self.root), value, 2)
        IN  [root |-> Some(res.node),
             count |-> IF res.kind = "attached" THEN self.count + 1
                       ELSE self.count,
             height |-> IF res.kind = "attached"
                        THEN usize_max(self.height, res.level)
                        ELSE self.height,
             panicked |-> res.kind = "panic"]
    ELSE
        IF partial_cmp(value, value) = "None" THEN
            [root |-> self.root, count |-> self.count,
             height |-> self.height, panicked |-> TRUE]
        ELSE
            [root |-> Some(Node_new(value)), count |-> 1,
             height |-> self.height, panicked |-> FALSE]

\* insert whose loop starts with `level` one too low.
insert_level_from_one(self, value) ==
    IF is_some(self.root) THEN
        LET res == insert_loop(unwrap(self.root), value, 1)
        IN  CASE res.kind = "panic" ->
                    [root |-> Some(res.node), count |-> self.count,
                     height |-> self.height, panicked |-> TRUE]
              [] res.kind = "return" ->
                    [root |-> Some(res.node), count |-> self.count,
                     height |-> self.height, panicked |-> FALSE]
              [] res.kind = "attached" ->
                    [root |-> Some(res.node), count |-> self.count + 1,
                     height |-> usize_max(self.height, res.level),
                     panicked |-> FALSE]
    ELSE
        IF partial_cmp(value, value) = "None" THEN
            [root |-> self.root, count |-> self.count,
             height |-> self.height, panicked |-> TRUE]
        ELSE
            [root |-> Some(Node_new(value)), count |-> 1, height |-> 1,
             panicked |-> FALSE]

\* BinaryTree::insert(&mut self, value).  The result is the tree after the
\* call and whether the call panicked.
insert(self, value) ==
    IF is_some(self.root) THEN
        LET res == insert_loop(unwrap(self.root), value, 2)
        IN  CASE res.kind = "panic" ->
                    [root |-> Some(res.node), count |-> self.count,
                     height |-> self.height, panicked |-> TRUE]
              [] res.kind = "return" ->
                    [root |-> Some(res.node), count |-> self.count,
                     height |-> self.height, panicked |-> FALSE]
              [] res.kind = "attached" ->
                    [root |-> Some(res.node), count |-> self.count + 1,
                     height |-> usize_max(self.height, res.level),
                     panicked |-> FALSE]
    ELSE
        IF partial_cmp(value, value) = "None" THEN
            [root |-> self.root, count |-> self.count,
             height |-> self.height, panicked |-> TRUE]
        ELSE
            [root |-> Some(Node_new(value)), count |-> 1, height |-> 1,
             panicked |-> FALSE]

\* clear that forgets to reset count.
clear_keeps_count(self) == [root |-> None, count |-> self.count, height |-> 0]

\* clear that forgets to reset height.
clear_keeps_height(self) == [root |-> None, count |-> 0, height |-> self.height]

\* clear that resets the counters and leaves the nodes.
clear_forgets_root(self) == [root |-> self.root, count |-> 0, height |-> 0]

\* BinaryTree::clear(&mut self).
clear(self) == [root |-> None, count |-> 0, height |-> 0]

\* is_empty that answers for the opposite case.
is_empty_inverted(self) == is_some(self.root)

\* BinaryTree::is_empty(&self).
is_empty(self) == is_none(self.root)

\* BinaryTree::height(&self): the cached field.
height_of(self) == self.height

\* BinaryTree::count(&self): the cached field.
count_of(self) == self.count

\* root that hands out the value of the leftmost node.
RECURSIVE leftmost(_)
leftmost(node) ==
    IF is_some(node.left) THEN leftmost(unwrap(node.left)) ELSE node.value

root_of_leftmost(self) ==
    IF is_some(self.root) THEN Some(leftmost(unwrap(self.root))) ELSE None

\* BinaryTree::root(&self): Option<&T>.
root_of(self) ==
    IF is_some(self.root) THEN Some(unwrap(self.root).value) ELSE None

\* The loop of BinaryTree::min: follow left children.
RECURSIVE min_loop(_)
min_loop(node) ==
    IF is_none(node.left) THEN Some(node.value)
    ELSE min_loop(unwrap(node.left))

\* min that looks no further than the root.
min_stops_at_root(self) ==
    IF is_some(self.root) THEN Some(unwrap(self.root).value) ELSE None

\* BinaryTree::min(&self): Option<&T>.
min(self) == IF is_some(self.root) THEN min_loop(unwrap(self.root)) ELSE None

\* The loop of BinaryTree::max: follow right children.
RECURSIVE max_loop(_)
max_loop(node) ==
    IF is_none(node.right) THEN Some(node.value)
    ELSE max_loop(unwrap(node.right))

\* BinaryTree::max(&self): Option<&T>.
max(self) == IF is_some(self.root) THEN max_loop(unwrap(self.root)) ELSE None

\* The loop of BinaryTree::contains.  The result is "true", "false" (the
\* break that leads to the final `false`) or "panic".
RECURSIVE contains_loop(_, _)
contains_loop(node, target) ==
    LET ord == partial_cmp(target, node.value)
    IN  CASE ord = "None" -> "panic"
          [] ord = "Equal" -> "true"
          [] ord = "Less" ->
                IF is_some(node.left)
                THEN contains_loop(unwrap(node.left), target)
                ELSE "false"
          [] ord = "Greater" ->
                IF is_some(node.right)
                THEN contains_loop(unwrap(node.right), target)
                ELSE "false"

\* contains that compares the target with the root alone.
contains_root_only(self, target) ==
    IF is_some(self.root) THEN
        LET ord == partial_cmp(target, unwrap(self.root).value)
        IN  CASE ord = "None" -> "panic"
              [] ord = "Equal" -> "true"
              [] OTHER -> "false"
    ELSE "false"

\* contains that answers false where the comparison is undefined.
contains_false_on_incomparable(self, target) ==
    IF is_some(self.root) THEN
        IF contains_loop(unwrap(self.root), target) = "true" THEN "true"
        ELSE "false"
    ELSE "false"

\* BinaryTree::contains(&self, target).
contains(self, target) ==
    IF is_some(self.root) THEN contains_loop(unwrap(self.root), target)
    ELSE "false"

\* ------------------------------------------------------------------ bulk construction

\* The tree held in the result of insert.
TreeOf(res) == [root |-> res.root, count |-> res.count, height |-> res.height]

\* `for v in vec { tree.insert(v); }` of From<Vec<T>>::from.  A panic of
\* insert ends the loop; `rest` is what the loop has not consumed.
RECURSIVE from_loop(_, _)
from_loop(tree, vec) ==
    IF vec = << >> THEN
        [root |-> tree.root, count |-> tree.count, height |-> tree.height,
         panicked |-> FALSE, rest |-> vec]
    ELSE
        LET res == insert(tree, Head(vec))
        IN  IF res.panicked
            THEN [root |-> res.root, count |-> res.count,
                  height |-> res.height, panicked |-> TRUE, rest |-> Tail(vec)]
            ELSE from_loop(TreeOf(res), Tail(vec))

\* <BinaryTree<T> as From<Vec<T>>>::from(vec)
from(vec) == from_loop(new, vec)

\* `for v in iter { tree.insert(v); }` of FromIterator::from_iter.
RECURSIVE from_iter_loop(_, _)
from_iter_loop(tree, items) ==
    IF items = << >> THEN
        [root |-> tree.root, count |-> tree.count, height |-> tree.height,
         panicked |-> FALSE, rest |-> items]
    ELSE
        LET res == insert(tree, Head(items))
        IN  IF res.panicked
            THEN [root |-> res.root, count |-> res.count,
                  height |-> res.height, panicked |-> TRUE,
                  rest |-> Tail(items)]
            ELSE from_iter_loop(TreeOf(res), Tail(items))

\* <BinaryTree<T> as FromIterator<T>>::from_iter(iter)
from_iter(items) == from_iter_loop(new, items)

\* `for v in iter { self.insert(v); }` of Extend::extend.
RECURSIVE extend_loop(_, _)
extend_loop(self, items) ==
    IF items = << >> THEN
        [root |-> self.root, count |-> self.count, height |-> self.height,
         panicked |-> FALSE, rest |-> items]
    ELSE
        LET res == insert(self, Head(items))
        IN  IF res.panicked
            THEN [root |-> res.root, count |-> res.count,
                  height |-> res.height, panicked |-> TRUE,
                  rest |-> Tail(items)]
            ELSE extend_loop(TreeOf(res), Tail(items))

\* extend that builds a tree of its own in place of growing self.
extend_restarts(self, items) == extend_loop(new, items)

\* <BinaryTree<T> as Extend<T>>::extend(&mut self, iter)
extend(self, items) == extend_loop(self, items)

\* ------------------------------------------------------------------ serde (feature "serde")

\* The text serde_json writes and reads is a sequence of tokens: the
\* punctuation, the quoted field names, null, and the decimal digits of the
\* numbers one by one.
DigitChars == << "0", "1", "2", "3", "4", "5", "6", "7", "8", "9" >>

\* What one step of parsing returns: Ok(val) with the text left, or Err.
Parsed(val, rest) == [ok |-> TRUE, val |-> val, rest |-> rest]

ParseErr(rest) == [ok |-> FALSE, val |-> None, rest |-> rest]

\* Serialize of an unsigned number: its decimal digits.
RECURSIVE ser_number(_)
ser_number(n) ==
    IF n < 10 THEN << DigitChars[n + 1] >>
    ELSE ser_number(n \div 10) \o << DigitChars[(n % 10) + 1] >>

\* The value of a digit token, or -1 for any other token.
digit_of(tok) ==
    IF \E d \in 0 .. 9 : DigitChars[d + 1] = tok
    THEN CHOOSE d \in 0 .. 9 : DigitChars[d + 1] = tok
    ELSE 0 - 1

\* Deserialize of an unsigned number: the longest run of digits, which must
\* not be empty and must fit the type (limit is its greatest value).
RECURSIVE de_digits(_, _, _)
de_digits(text, acc, limit) ==
    IF text = << >> \/ digit_of(Head(text)) < 0 THEN Parsed(acc, text)
    ELSE IF acc * 10 + digit_of(Head(text)) > limit THEN ParseErr(text)
    ELSE de_digits(Tail(text), acc * 10 + digit_of(Head(text)), limit)

de_number(text, limit) ==
    IF text = << >> \/ digit_of(Head(text)) < 0 THEN ParseErr(text)
    ELSE de_digits(text, 0, limit)

\* The parser reads the given tokens or fails.
de_expect(text, toks) ==
    IF Len(toks) <= Len(text) /\ SubSeq(text, 1, Len(toks)) = toks
    THEN Parsed(None, SubSeq(text, Len(toks) + 1, Len(text)))
    ELSE ParseErr(text)

\* derive(Serialize) of Node<T> that writes the left child under both
\* child fields.
RECURSIVE serialize_node_left_twice(_)
serialize_node_left_twice(node) ==
    << "{", "\"value\"", ":" >> \o ser_number(node.value)
    \o << ",", "\"left\"", ":" >>
    \o (IF is_none(node.left) THEN << "null" >>
        ELSE serialize_node_left_twice(unwrap(node.left)))
    \o << ",", "\"right\"", ":" >>
    \o (IF is_none(node.left) THEN << "null" >>
        ELSE serialize_node_left_twice(unwrap(node.left)))
    \o << "}" >>

\* derive(Serialize) of Node<T>: an object of the fields value, left, right
\* in the order of the declaration; an absent child is null, a present one
\* the object of the boxed node.
RECURSIVE serialize_node(_)
serialize_node(node) ==
    << "{", "\"value\"", ":" >> \o ser_number(node.value)
    \o << ",", "\"left\"", ":" >>
    \o (IF is_none(node.left) THEN << "null" >>
        ELSE serialize_node(unwrap(node.left)))
    \o << ",", "\"right\"", ":" >>
    \o (IF is_none(node.right) THEN << "null" >>
        ELSE serialize_node(unwrap(node.right)))
    \o << "}" >>

\* derive(Serialize) of BinaryTree<T>: an object of the fields root, count,
\* height.
serialize(self) ==
    << "{", "\"root\"", ":" >>
    \o (IF is_none(self.root) THEN << "null" >>
        ELSE serialize_node(unwrap(self.root)))
    \o << ",", "\"count\"", ":" >> \o ser_number(self.count)
    \o << ",", "\"height\"", ":" >> \o ser_number(self.height)
    \o << "}" >>

\* serde_json::to_string(&tree)
to_string(self) == serialize(self)

\* derive(Deserialize) of Option<Box<Node<T>>>: null is None, anything else
\* must be the object of a node with its three fields.
RECURSIVE deserialize_option(_)
deserialize_option(text) ==
    IF de_expect(text, << "null" >>).ok
    THEN Parsed(None, de_expect(text, << "null" >>).rest)
    ELSE
    LET open == de_expect(text, << "{", "\"value\"", ":" >>)
        value == de_number(open.rest, NumValues - 1)
        toLeft == de_expect(value.rest, << ",", "\"left\"", ":" >>)
        left == deserialize_option(toLeft.rest)
        toRight == de_expect(left.rest, << ",", "\"right\"", ":" >>)
        right == deserialize_option(toRight.rest)
        close == de_expect(right.rest, << "}" >>)
    IN  IF ~open.ok THEN ParseErr(text)
        ELSE IF ~value.ok THEN ParseErr(text)
        ELSE IF ~toLeft.ok THEN ParseErr(text)
        ELSE IF ~left.ok THEN ParseErr(text)
        ELSE IF ~toRight.ok THEN ParseErr(text)
        ELSE IF ~right.ok THEN ParseErr(text)
        ELSE IF ~close.ok THEN ParseErr(text)
        ELSE Parsed(Some([value |-> value.val, left |-> left.val,
                          right |-> right.val]), close.rest)

\* derive(Deserialize) of BinaryTree<T>: the fields are taken as written,
\* count and height are not recomputed.
deserialize(text) ==
    LET open == de_expect(text, << "{", "\"root\"", ":" >>)
        rootField == deserialize_option(open.rest)
        toCount == de_expect(rootField.rest, << ",", "\"count\"", ":" >>)
        countField == de_number(toCount.rest, UsizeMax)
        toHeight == de_expect(countField.rest, << ",", "\"height\"", ":" >>)
        heightField == de_number(toHeight.rest, UsizeMax)
        close == de_expect(heightField.rest, << "}" >>)
    IN  IF ~open.ok THEN ParseErr(text)
        ELSE IF ~rootField.ok THEN ParseErr(text)
        ELSE IF ~toCount.ok THEN ParseErr(text)
        ELSE IF ~countField.ok THEN ParseErr(text)
        ELSE IF ~toHeight.ok THEN ParseErr(text)
        ELSE IF ~heightField.ok THEN ParseErr(text)
        ELSE IF ~close.ok THEN ParseErr(text)
        ELSE Parsed([root |-> rootField.val, count |-> countField.val,
                     height |-> heightField.val], close.rest)

\* serde_json::from_str(text): the whole text must be one tree.
from_str(text) ==
    LET res == deserialize(text)
    IN  IF res.ok /\ res.rest = << >> THEN res ELSE ParseErr(text)

\* ------------------------------------------------------------------ traversals

\* push_back in place of push_front: the queue is served first in, first out.
push_back(queue, x) == Append(queue, x)

\* push_front on a VecDeque.
push_front(queue, x) == << x >> \o queue

\* The owning loop with the two pushes in the other order: left is pushed
\* first, so right is popped first.
RECURSIVE into_iter_loop_left_first(_, _)
into_iter_loop_left_first(queue, values) ==
    IF queue = << >> THEN values
    ELSE
        LET node == Head(queue)
            q0 == Tail(queue)
            q1 == IF is_some(node.left)
                  THEN push_front(q0, unwrap(node.left)) ELSE q0
            q2 == IF is_some(node.right)
                  THEN push_front(q1, unwrap(node.right)) ELSE q1
        IN  into_iter_loop_left_first(q2, Append(values, node.value))

\* The `while let Some(node) = queue.pop_front()` loop of
\* <BinaryTree<T> as IntoIterator>::into_iter.
RECURSIVE into_iter_loop(_, _)
into_iter_loop(queue, values) ==
    IF queue = << >> THEN values
    ELSE
        LET node == Head(queue)
            q0 == Tail(queue)
            q1 == IF is_some(node.right)
                  THEN push_front(q0, unwrap(node.right)) ELSE q0
            q2 == IF is_some(node.left)
                  THEN push_front(q1, unwrap(node.left)) ELSE q1
        IN  into_iter_loop(q2, Append(values, node.value))

\* <BinaryTree<T> as IntoIterator>::into_iter(self): the IntoIter, whose
\* `vec` holds the values not yet yielded.
into_iter(self) ==
    [vec |-> IF is_some(self.root)
             THEN into_iter_loop(push_front(<< >>, unwrap(self.root)), << >>)
             ELSE << >>]

\* next that takes the last remaining value, as next_back does.
IntoIter_next_back(it) ==
    IF it.vec = << >> THEN [it |-> it, val |-> None]
    ELSE [it |-> [vec |-> SubSeq(it.vec, 1, Len(it.vec) - 1)],
          val |-> Some(it.vec[Len(it.vec)])]

\* <IntoIter<T> as Iterator>::next: std::vec::IntoIter::next takes the
\* first remaining value, or returns None when none remains.
IntoIter_next(it) ==
    IF it.vec = << >> THEN [it |-> it, val |-> None]
    ELSE [it |-> [vec |-> Tail(it.vec)], val |-> Some(Head(it.vec))]

\* The `while let` loop of <&BinaryTree<T> as IntoIterator>::into_iter.
RECURSIVE ref_into_iter_loop(_, _)
ref_into_iter_loop(queue, values) ==
    IF queue = << >> THEN values
    ELSE
        LET node == Head(queue)
            q0 == Tail(queue)
            q1 == IF is_some(node.right)
                  THEN push_front(q0, unwrap(node.right)) ELSE q0
            q2 == IF is_some(node.left)
                  THEN push_front(q1, unwrap(node.left)) ELSE q1
        IN  ref_into_iter_loop(q2, Append(values, node.value))

\* <&BinaryTree<T> as IntoIterator>::into_iter(self): the Iter.
ref_into_iter(self) ==
    [vec |-> IF is_some(self.root)
             THEN ref_into_iter_loop(push_front(<< >>, unwrap(self.root)), << >>)
             ELSE << >>,
     index |-> 0]

\* BinaryTree::iter(&self).
iter(self) == ref_into_iter(self)

\* self.vec.get(self.index): Option<&&T>.
vec_get(vec, index) ==
    IF index < Len(vec) THEN Some(vec[index + 1]) ELSE None

\* next that moves the index only when it yields a value.
Iter_next_capped(it, wraps) ==
    LET val == vec_get(it.vec, it.index)
    IN  IF is_none(val) THEN [it |-> it, val |-> val, panicked |-> FALSE]
        ELSE [it |-> [it EXCEPT !.index = (it.index + 1) % UsizeModulus],
              val |-> val, panicked |-> FALSE]

\* <Iter<T> as Iterator>::next.  `self.index += 1` overflows when index is
\* usize::MAX: a build with overflow checks panics there, a build without
\* them wraps the index to 0.  `wraps` says which build this is.
Iter_next(it, wraps) ==
    LET val == vec_get(it.vec, it.index)
    IN  IF it.index = UsizeMax /\ ~wraps
        THEN [it |-> it, val |-> None, panicked |-> TRUE]
        ELSE [it |-> [it EXCEPT !.index = (it.index + 1) % UsizeModulus],
              val |-> val, panicked |-> FALSE]

\* ------------------------------------------------------------------ state

VARIABLES
    root,       \* BinaryTree::root: Option<Box<Node<T>>>
    count,      \* BinaryTree::count
    height,     \* BinaryTree::height
    live,       \* the client still owns the tree (into_iter(self) moves it away)
    panicked,   \* a call has panicked: the program has stopped
    it,         \* Option<Iter>: the borrowing traversal object, while it lives
    into,       \* Option<IntoIter>: the owning traversal object, while it lives
    last,       \* history: the last call, with
                \*   op, arg = its name and argument, val = what it returned,
                \*   pre = the tree before it, had = `inserted` before it
    inserted,   \* history: the values insert has stored since new() / clear()
    iterObs,    \* history: the borrowing traversal of the tree as it is now:
                \*   tree = the tree it was created from,
                \*   log = what each call of next returned, in order
    intoObs,    \* history: the same for the owning traversal
    walk        \* Option: the call of insert that is inside its loop, with
                \*   value = its argument, cursor = the path from the root of
                \*   the tree to the node `root` points to, level = `level`

vars == << root, count, height, live, panicked, it, into, last, inserted,
           iterObs, intoObs, walk >>

\* The tree the client holds.
Self == [root |-> root, count |-> count, height |-> height]

Call(op, arg, val) ==
    [op |-> op, arg |-> arg, val |-> val, pre |-> Self, had |-> inserted]

NoObs == [tree |-> new, log |-> << >>]

\* The state after `let mut tree = BinaryTree::new();`.
Init ==
    /\ root = new.root
    /\ count = new.count
    /\ height = new.height
    /\ live = TRUE
    /\ panicked = FALSE
    /\ it = None
    /\ into = None
    /\ last = [op |-> "new", arg |-> None, val |-> None, pre |-> new,
               had |-> {}]
    /\ inserted = {}
    /\ iterObs = NoObs
    /\ intoObs = NoObs
    /\ walk = None

\* No Iter borrows the tree, so the client may mutate or move it.
Unborrowed == live /\ is_none(it)

\* `tree = BinaryTree::new();` once the previous tree was moved into an
\* IntoIter and that IntoIter has been dropped.
New ==
    /\ ~panicked /\ ~live /\ is_none(into)
    /\ root' = new.root
    /\ count' = new.count
    /\ height' = new.height
    /\ live' = TRUE
    /\ last' = Call("new", None, None)
    /\ inserted' = {}
    /\ iterObs' = NoObs
    /\ intoObs' = NoObs
    /\ UNCHANGED << walk, panicked, it, into >>

\* tree.insert(value)
Insert(value) ==
    /\ ~panicked /\ Unborrowed
    /\ LET res == insert(Self, value)
       IN  /\ root' = res.root
           /\ count' = res.count
           /\ height' = res.height
           /\ panicked' = res.panicked
           /\ inserted' = IF res.panicked THEN inserted
                          ELSE inserted \cup {value}
    /\ last' = Call("insert", Some(value), None)
    /\ iterObs' = NoObs
    /\ UNCHANGED << walk, live, it, into, intoObs >>

\* tree.clear()
Clear ==
    /\ ~panicked /\ Unborrowed
    /\ LET res == clear(Self)
       IN  /\ root' = res.root
           /\ count' = res.count
           /\ height' = res.height
    /\ last' = Call("clear", None, None)
    /\ inserted' = {}
    /\ iterObs' = NoObs
    /\ UNCHANGED << walk, live, panicked, it, into, intoObs >>

\* A read that takes the root out of the tree.
Read_takes_root(op, val) ==
    /\ ~panicked /\ live
    /\ root' = None
    /\ last' = Call(op, None, val)
    /\ UNCHANGED << walk, count, height, live, panicked, it, into, inserted,
                    iterObs, intoObs >>

\* A call of a method that takes &self and cannot panic.
Read(op, val) ==
    /\ ~panicked /\ live
    /\ last' = Call(op, None, val)
    /\ UNCHANGED << walk, root, count, height, live, panicked, it, into, inserted,
                    iterObs, intoObs >>

IsEmpty == Read("is_empty", is_empty(Self))

Height == Read("height", height_of(Self))

Count == Read("count", count_of(Self))

Root == Read("root", root_of(Self))

Min == Read("min", min(Self))

Max == Read("max", max(Self))

\* tree.contains(&target)
Contains(target) ==
    /\ ~panicked /\ live
    /\ LET res == contains(Self, target)
       IN  /\ panicked' = (res = "panic")
           /\ last' = Call("contains", Some(target), res)
    /\ UNCHANGED << walk, root, count, height, live, it, into, inserted,
                    iterObs, intoObs >>

\* let mut i = tree.iter();
IterNew ==
    /\ ~panicked /\ Unborrowed
    /\ it' = Some(iter(Self))
    /\ iterObs' = [tree |-> Self, log |-> << >>]
    /\ last' = Call("iter", None, None)
    /\ UNCHANGED << walk, root, count, height, live, panicked, into, inserted,
                    intoObs >>

\* i.next() on the Iter.  The client stops calling it ExtraNext calls after
\* the index has gone once round the usize range.
IterNext ==
    /\ ~panicked /\ is_some(it)
    /\ Len(iterObs.log) < UsizeModulus + ExtraNext
    /\ \E wraps \in BOOLEAN :
          LET res == Iter_next(unwrap(it), wraps)
          IN  /\ it' = Some(res.it)
              /\ panicked' = res.panicked
              /\ last' = Call("Iter::next", None, res.val)
              /\ iterObs' = IF res.panicked THEN iterObs
                            ELSE [iterObs EXCEPT !.log = Append(@, res.val)]
    /\ UNCHANGED << walk, root, count, height, live, into, inserted, intoObs >>

\* The Iter goes out of scope: the borrow of the tree ends.
IterDrop ==
    /\ ~panicked /\ is_some(it)
    /\ it' = None
    /\ last' = Call("drop Iter", None, None)
    /\ UNCHANGED << walk, root, count, height, live, panicked, into, inserted,
                    iterObs, intoObs >>

\* let mut i = tree.into_iter();  The tree is moved into the call, so the
\* client holds no tree until it makes a new one.
IntoIterNew ==
    /\ ~panicked /\ Unborrowed /\ is_none(into)
    /\ into' = Some(into_iter(Self))
    /\ intoObs' = [tree |-> Self, log |-> << >>]
    /\ live' = FALSE
    /\ root' = None
    /\ count' = 0
    /\ height' = 0
    /\ inserted' = {}
    /\ last' = Call("into_iter", None, None)
    /\ UNCHANGED << walk, panicked, it, iterObs >>

\* i.next() on the IntoIter.  The client stops calling it ExtraNext calls
\* after the first None.
IntoNext ==
    /\ ~panicked /\ is_some(into)
    /\ Len(intoObs.log) < intoObs.tree.count + ExtraNext
    /\ LET res == IntoIter_next(unwrap(into))
       IN  /\ into' = Some(res.it)
           /\ last' = Call("IntoIter::next", None, res.val)
           /\ intoObs' = [intoObs EXCEPT !.log = Append(@, res.val)]
    /\ UNCHANGED << walk, root, count, height, live, panicked, it, inserted,
                    iterObs >>

\* The IntoIter goes out of scope.
IntoDrop ==
    /\ ~panicked /\ is_some(into)
    /\ into' = None
    /\ last' = Call("drop IntoIter", None, None)
    /\ UNCHANGED << walk, root, count, height, live, panicked, it, inserted,
                    iterObs, intoObs >>

\* The sequences of at most n elements of S.
SeqsUpTo(S, n) == UNION {[1 .. k -> S] : k \in 0 .. n}

\* The values of a sequence.
Range(seq) == {seq[i] : i \in 1 .. Len(seq)}

\* The elements a bulk loop passed to insert without a panic.
Stored(items, res) ==
    IF res.panicked
    THEN {items[i] : i \in 1 .. (Len(items) - Len(res.rest) - 1)}
    ELSE Range(items)

\* The client has made its tree and not yet used it.
Unused == live /\ last.op = "new"

\* A call of an associated function that builds a tree: there is no tree
\* before it but the empty one its loop starts from.
Build(op, arg) ==
    [op |-> op, arg |-> arg, val |-> None, pre |-> new, had |-> {}]

\* let mut tree = BinaryTree::from(vec);  in place of the tree made by
\* new().  When from panics nothing is assigned.
From(vec) ==
    /\ ~panicked /\ Unborrowed /\ Unused
    /\ LET res == from(vec)
       IN  /\ panicked' = res.panicked
           /\ IF res.panicked
              THEN UNCHANGED << root, count, height, inserted >>
              ELSE /\ root' = res.root
                   /\ count' = res.count
                   /\ height' = res.height
                   /\ inserted' = Stored(vec, res)
    /\ last' = Build("from", Some(vec))
    /\ iterObs' = NoObs
    /\ UNCHANGED << walk, live, it, into, intoObs >>

\* let mut tree = BinaryTree::from_iter(items);  (or items.collect()) in
\* place of the tree made by new().
FromIter(items) ==
    /\ ~panicked /\ Unborrowed /\ Unused
    /\ LET res == from_iter(items)
       IN  /\ panicked' = res.panicked
           /\ IF res.panicked
              THEN UNCHANGED << root, count, height, inserted >>
              ELSE /\ root' = res.root
                   /\ count' = res.count
                   /\ height' = res.height
                   /\ inserted' = Stored(items, res)
    /\ last' = Build("from_iter", Some(items))
    /\ iterObs' = NoObs
    /\ UNCHANGED << walk, live, it, into, intoObs >>

\* tree.extend(items);  The inserts made before a panic stay in the tree.
\* The client makes one such call on a tree.
Extend(items) ==
    /\ ~panicked /\ Unborrowed /\ last.op # "extend"
    /\ LET res == extend(Self, items)
       IN  /\ root' = res.root
           /\ count' = res.count
           /\ height' = res.height
           /\ panicked' = res.panicked
           /\ inserted' = inserted \cup Stored(items, res)
    /\ last' = Call("extend", Some(items), None)
    /\ iterObs' = NoObs
    /\ UNCHANGED << walk, live, it, into, intoObs >>

\* let text = serde_json::to_string(&tree).unwrap();
JsonToString == Read("to_string", to_string(Self))

\* tree = serde_json::from_str(&text).unwrap();  with the text the last call
\* wrote, or with that text cut short by its last token.  unwrap panics on
\* Err, and then nothing is assigned.
JsonFromStr(text) ==
    /\ ~panicked /\ Unborrowed
    /\ LET res == from_str(text)
       IN  /\ panicked' = ~res.ok
           /\ IF res.ok
              THEN /\ root' = res.val.root
                   /\ count' = res.val.count
                   /\ height' = res.val.height
              ELSE UNCHANGED << root, count, height >>
    /\ last' = Call("from_str", Some(text), None)
    /\ iterObs' = NoObs
    /\ UNCHANGED << walk, live, it, into, inserted, intoObs >>

\* The node a cursor points to: the path is followed from the node down.
RECURSIVE NodeAt(_, _)
NodeAt(node, path) ==
    IF path = << >> THEN node
    ELSE IF Head(path) = "left" THEN NodeAt(unwrap(node.left), Tail(path))
    ELSE NodeAt(unwrap(node.right), Tail(path))

\* A write through the cursor: the node it points to becomes n, every other
\* node stays.
RECURSIVE WriteAt(_, _, _)
WriteAt(node, path, n) ==
    IF path = << >> THEN n
    ELSE IF Head(path) = "left"
    THEN [node EXCEPT !.left = Some(WriteAt(unwrap(node.left), Tail(path), n))]
    ELSE [node EXCEPT !.right =
                         Some(WriteAt(unwrap(node.right), Tail(path), n))]

\* The arms of the loop that call set_left on a node whose left child is
\* present.
insert_arm_overwrites(node, value) ==
    LET ord == partial_cmp(value, node.value)
    IN  IF ord = "None" THEN "panic"
        ELSE IF ord = "Equal" THEN "return"
        ELSE IF is_none(node.left) /\ is_none(node.right) THEN
            IF ord = "Less" THEN "set_left" ELSE "set_right"
        ELSE IF is_none(node.left) /\ is_some(node.right) THEN
            IF ord = "Less" THEN "set_left" ELSE "right_mut"
        ELSE IF is_some(node.left) /\ is_none(node.right) THEN
            IF ord = "Less" THEN "set_left" ELSE "set_right"
        ELSE
            IF ord = "Less" THEN "left_mut" ELSE "right_mut"

\* What one iteration of the loop of insert does at the node the cursor
\* points to: the arm of `match (root.left(), root.right())` and of the
\* match on the comparison in it.
insert_arm(node, value) ==
    LET ord == partial_cmp(value, node.value)
    IN  IF ord = "None" THEN "panic"
        ELSE IF ord = "Equal" THEN "return"
        ELSE IF is_none(node.left) /\ is_none(node.right) THEN
            IF ord = "Less" THEN "set_left" ELSE "set_right"
        ELSE IF is_none(node.left) /\ is_some(node.right) THEN
            IF ord = "Less" THEN "set_left" ELSE "right_mut"
        ELSE IF is_some(node.left) /\ is_none(node.right) THEN
            IF ord = "Less" THEN "left_mut" ELSE "set_right"
        ELSE
            IF ord = "Less" THEN "left_mut" ELSE "right_mut"

\* tree.insert(value) up to the loop: on an empty tree the whole else branch,
\* otherwise `let mut level: usize = 2;` with the cursor at the root.
InsertCall(value) ==
    /\ ~panicked /\ Unborrowed /\ is_none(walk)
    /\ IF is_some(root) THEN
           /\ walk' = Some([value |-> value, cursor |-> << >>, level |-> 2])
           /\ last' = Call("insert", Some(value), None)
           /\ UNCHANGED << root, count, height, panicked, inserted >>
       ELSE IF partial_cmp(value, value) = "None" THEN
           /\ panicked' = TRUE
           /\ last' = Call("insert", Some(value),
                           Some([kind |-> "panic", level |-> 1,
                                 cursor |-> << >>]))
           /\ UNCHANGED << root, count, height, inserted, walk >>
       ELSE
           /\ root' = Some(Node_new(value))
           /\ count' = 1
           /\ height' = 1
           /\ inserted' = {value}
           /\ last' = Call("insert", Some(value),
                           Some([kind |-> "root", level |-> 1,
                                 cursor |-> << >>]))
           /\ UNCHANGED << panicked, walk >>
    /\ iterObs' = NoObs
    /\ UNCHANGED << live, it, into, intoObs >>

\* An iteration of the loop that takes a child arm without moving the
\* cursor; `level` is a usize.
InsertStep_stays ==
    /\ ~panicked /\ is_some(walk)
    /\ LET w == unwrap(walk)
           node == NodeAt(unwrap(root), w.cursor)
           arm == insert_arm(node, w.value)
           Ended(kind) ==
               [last EXCEPT !.val = Some([kind |-> kind, level |-> w.level,
                                          cursor |-> w.cursor])]
           Attach(n) ==
               /\ root' = Some(WriteAt(unwrap(root), w.cursor, n))
               /\ height' = usize_max(height, w.level)
               /\ count' = count + 1
               /\ inserted' = inserted \cup {w.value}
               /\ walk' = None
               /\ last' = Ended("attached")
               /\ UNCHANGED panicked
           Descend(side) ==
               /\ walk' = Some([w EXCEPT !.cursor = @,
                                         !.level = (@ + 1) % UsizeModulus])
               /\ UNCHANGED << root, count, height, panicked, inserted, last >>
       IN  CASE arm = "panic" ->
                   /\ panicked' = TRUE
                   /\ walk' = None
                   /\ last' = Ended("panic")
                   /\ UNCHANGED << root, count, height, inserted >>
             [] arm = "return" ->
                   /\ walk' = None
                   /\ last' = Ended("return")
                   /\ UNCHANGED << root, count, height, panicked, inserted >>
             [] arm = "set_left" -> Attach(set_left(node, w.value))
             [] arm = "set_right" -> Attach(set_right(node, w.value))
             [] arm = "left_mut" -> Descend("left")
             [] arm = "right_mut" -> Descend("right")
    /\ UNCHANGED << live, it, into, iterObs, intoObs >>

\* One iteration of the loop of insert.
InsertStep ==
    /\ ~panicked /\ is_some(walk)
    /\ LET w == unwrap(walk)
           node == NodeAt(unwrap(root), w.cursor)
           arm == insert_arm(node, w.value)
           Ended(kind) ==
               [last EXCEPT !.val = Some([kind |-> kind, level |-> w.level,
                                          cursor |-> w.cursor])]
           Attach(n) ==
               /\ root' = Some(WriteAt(unwrap(root), w.cursor, n))
               /\ height' = usize_max(height, w.level)
               /\ count' = count + 1
               /\ inserted' = inserted \cup {w.value}
               /\ walk' = None
               /\ last' = Ended("attached")
               /\ UNCHANGED panicked
           Descend(side) ==
               /\ walk' = Some([w EXCEPT !.cursor = Append(@, side),
                                         !.level = @ + 1])
               /\ UNCHANGED << root, count, height, panicked, inserted, last >>
       IN  CASE arm = "panic" ->
                   /\ panicked' = TRUE
                   /\ walk' = None
                   /\ last' = Ended("panic")
                   /\ UNCHANGED << root, count, height, inserted >>
             [] arm = "return" ->
                   /\ walk' = None
                   /\ last' = Ended("return")
                   /\ UNCHANGED << root, count, height, panicked, inserted >>
             [] arm = "set_left" -> Attach(set_left(node, w.value))
             [] arm = "set_right" -> Attach(set_right(node, w.value))
             [] arm = "left_mut" -> Descend("left")
             [] arm = "right_mut" -> Descend("right")
    /\ UNCHANGED << live, it, into, iterObs, intoObs >>

Next ==
    \/ New
    \/ \E value \in Values : Insert(value)
    \/ Clear
    \/ IsEmpty
    \/ Height
    \/ Count
    \/ Root
    \/ Min
    \/ Max
    \/ \E target \in Values : Contains(target)
    \/ IterNew
    \/ IterNext
    \/ IterDrop
    \/ IntoIterNew
    \/ IntoNext
    \/ IntoDrop

Spec == Init /\ [][Next]_vars

\* The client of a tree whose element type is only partially ordered: it
\* inserts and looks up values of every kind, and stops at the first panic.
NextPartial ==
    \/ \E value \in PartialValues : Insert(value)
    \/ Clear
    \/ IsEmpty
    \/ \E target \in PartialValues : Contains(target)
    \/ \E vec \in SeqsUpTo(PartialValues, MaxVecLen) : From(vec)

SpecPartial == Init /\ [][NextPartial]_vars

\* The client that builds a tree of totally ordered values in bulk, or
\* takes the empty tree, and then grows it in bulk.
NextBulk ==
    \/ \E vec \in SeqsUpTo(Values, MaxVecLen) : From(vec)
    \/ \E items \in SeqsUpTo(Values, MaxVecLen) : FromIter(items)
    \/ \E items \in SeqsUpTo(Values, MaxExtendLen) : Extend(items)

SpecBulk == Init /\ [][NextBulk]_vars

\* The client that writes its tree as JSON and reads a tree back from what
\* it wrote, whole or truncated.
NextJson ==
    \/ \E value \in Values : Insert(value)
    \/ Clear
    \/ JsonToString
    \/ /\ last.op = "to_string"
       /\ \E text \in {last.val, SubSeq(last.val, 1, Len(last.val) - 1)} :
             JsonFromStr(text)

SpecJson == Init /\ [][NextJson]_vars

\* The client that inserts values of every kind and clears, seen one loop
\* iteration of insert at a time.  insert is an ordinary call: once it has
\* started nothing but the call itself runs, and it runs on.
NextWalk ==
    \/ \E value \in PartialValues : InsertCall(value)
    \/ InsertStep
    \/ is_none(walk) /\ Clear

SpecWalk == Init /\ [][NextWalk]_vars /\ WF_vars(InsertStep)

\* ------------------------------------------------------------------ what the claims speak of

\* The values stored in a (sub)tree.
RECURSIVE ValuesOf(_)
ValuesOf(o) ==
    IF is_none(o) THEN {}
    ELSE {unwrap(o).value} \cup ValuesOf(unwrap(o).left)
                           \cup ValuesOf(unwrap(o).right)

\* The number of nodes reachable from o.
RECURSIVE Size(_)
Size(o) ==
    IF is_none(o) THEN 0
    ELSE 1 + Size(unwrap(o).left) + Size(unwrap(o).right)

\* The number of nodes on the longest path from o down to a leaf.
RECURSIVE Longest(_)
Longest(o) ==
    IF is_none(o) THEN 0
    ELSE 1 + usize_max(Longest(unwrap(o).left), Longest(unwrap(o).right))

\* BST ordering of every node of a (sub)tree.
RECURSIVE IsBST(_)
IsBST(o) ==
    \/ is_none(o)
    \/ /\ \A x \in ValuesOf(unwrap(o).left) : x < unwrap(o).value
       /\ \A x \in ValuesOf(unwrap(o).right) : x > unwrap(o).value
       /\ IsBST(unwrap(o).left)
       /\ IsBST(unwrap(o).right)

\* The number of nodes on the path from o down to the node holding v
\* (0 when no node of the subtree holds v), found without using the order.
RECURSIVE DepthOf(_, _)
DepthOf(o, v) ==
    IF is_none(o) \/ v \notin ValuesOf(o) THEN 0
    ELSE IF unwrap(o).value = v THEN 1
    ELSE 1 + usize_max(DepthOf(unwrap(o).left, v), DepthOf(unwrap(o).right, v))

\* The node of the subtree that holds v, found without using the order.
RECURSIVE NodeOf(_, _)
NodeOf(o, v) ==
    IF is_none(o) THEN None
    ELSE IF unwrap(o).value = v THEN o
    ELSE IF is_some(NodeOf(unwrap(o).left, v)) THEN NodeOf(unwrap(o).left, v)
    ELSE NodeOf(unwrap(o).right, v)

\* Standard preorder: the node, its left subtree, its right subtree.
RECURSIVE Preorder(_)
Preorder(o) ==
    IF is_none(o) THEN << >>
    ELSE << unwrap(o).value >> \o Preorder(unwrap(o).left)
                               \o Preorder(unwrap(o).right)

\* The least and the greatest element of a non-empty set of values.
Least(S) == CHOOSE x \in S : \A y \in S : x <= y

Greatest(S) == CHOOSE x \in S : \A y \in S : x >= y

\* The positions of a log of next() results that hold None.
NonePositions(log) == {i \in 1 .. Len(log) : is_none(log[i])}

\* A traversal is exhausted once next() has returned None.
Exhausted(log) == NonePositions(log) # {}

\* The sequence a traversal produced: the values next() returned up to its
\* first None.
RECURSIVE Produced(_)
Produced(log) ==
    IF log = << >> \/ is_none(Head(log)) THEN << >>
    ELSE << unwrap(Head(log)) >> \o Produced(Tail(log))

IsPrefix(s, t) == Len(s) <= Len(t) /\ \A i \in 1 .. Len(s) : s[i] = t[i]

\* The last call was op.
Called(op) == last.op = op

\* ------------------------------------------------------------------ claims

\* The argument of the last call.
Arg == unwrap(last.arg)

\* C1: after any sequence of insert and clear operations every node of the
\* tree satisfies BST ordering: all values of its left subtree are strictly
\* less than its value, all values of its right subtree strictly greater.
C1_BstOrdering == IsBST(root)

\* A tree of four values and three levels, whose root has both children,
\* just after an insert.
C1_Witness ==
    /\ Called("insert")
    /\ Size(root) = 4
    /\ Longest(root) = 3
    /\ is_some(unwrap(root).left)
    /\ is_some(unwrap(root).right)

\* C2: after any sequence of insert and clear operations, inserts of present
\* values included, the cached count that count() returns is the number of
\* nodes reachable from root.
C2_CountIsNodeCount ==
    /\ count_of(Self) = Size(root)
    /\ Called("count") => last.val = Size(root)

\* count() called on a tree of three nodes.
C2_Witness ==
    /\ Called("count")
    /\ last.val = 3
    /\ Size(root) = 3

\* C3: after any sequence of insert and clear operations height() is the
\* number of nodes on the longest path from the root to a leaf (0 for the
\* empty tree, 1 for a lone root), and an insert of a new value leaves it at
\* max(previous height, depth of the new leaf).
C3_HeightIsLongestPath ==
    /\ height_of(Self) = Longest(root)
    /\ Called("height") => last.val = Longest(root)
    /\ is_none(root) => height_of(Self) = 0
    /\ Size(root) = 1 => height_of(Self) = 1
    /\ (Called("insert") /\ ~panicked /\ Arg \notin ValuesOf(last.pre.root))
          => height = usize_max(last.pre.height, DepthOf(root, Arg))

\* An insert of a new leaf at level 2 into a tree of height 3.
C3_Witness ==
    /\ Called("insert")
    /\ Arg \notin ValuesOf(last.pre.root)
    /\ DepthOf(root, Arg) = 2
    /\ last.pre.height = 3
    /\ height = 3

\* C4: insert(v) of a value the tree already stores, at the root, at an
\* inner node or at a leaf, changes nothing: shape, count and height stay.
C4_DuplicateInsertIsNoOp ==
    (Called("insert") /\ Arg \in ValuesOf(last.pre.root)) => Self = last.pre

\* A second insert of the value of a node that is neither root nor leaf.
C4_Witness ==
    /\ Called("insert")
    /\ Arg \in ValuesOf(last.pre.root)
    /\ Arg # unwrap(root).value
    /\ \/ is_some(unwrap(NodeOf(root, Arg)).left)
       \/ is_some(unwrap(NodeOf(root, Arg)).right)

\* C5: for inserts into a fresh or just-cleared tree, count() is the number
\* of distinct values inserted so far: an insert of a value not yet present
\* adds exactly 1, an insert of a present value adds nothing.
C5_CountIsDistinctInserted ==
    /\ count_of(Self) = Cardinality(inserted)
    /\ Called("count") => last.val = Cardinality(inserted)
    /\ (Called("insert") /\ ~panicked) =>
          count = last.pre.count + (IF Arg \in last.had THEN 0 ELSE 1)

\* A repeated insert into a tree that was filled with every value.
C5_Witness ==
    /\ Called("insert")
    /\ Arg \in last.had
    /\ inserted = Values
    /\ count = NumValues

\* C6: for totally ordered values contains(t) is true exactly when t was
\* inserted since the tree was created or last cleared; it is false for
\* every t on an empty tree and true for t right after insert(t).
C6_ContainsIffInserted ==
    /\ live => \A t \in Values : (contains(Self, t) = "true") <=> (t \in inserted)
    /\ Called("contains") =>
          /\ last.val \in {"true", "false"}
          /\ (last.val = "true") <=> (Arg \in inserted)
    /\ (live /\ is_none(root)) => \A t \in Values : contains(Self, t) = "false"
    /\ (Called("insert") /\ ~panicked) => contains(Self, Arg) = "true"

\* contains found a value on the third level of a tree that lacks another
\* value.
C6_Witness ==
    /\ Called("contains")
    /\ last.val = "true"
    /\ DepthOf(root, Arg) = 3
    /\ inserted # Values

\* C7: for a tree built by inserts of totally ordered values min() returns
\* the least stored value and max() the greatest; both return None exactly
\* when the tree is empty.
C7_MinMaxAreExtremes ==
    /\ is_none(min(Self)) <=> is_none(root)
    /\ is_none(max(Self)) <=> is_none(root)
    /\ is_some(root) =>
          /\ min(Self) = Some(Least(ValuesOf(root)))
          /\ max(Self) = Some(Greatest(ValuesOf(root)))
    /\ Called("min") =>
          last.val = IF inserted = {} THEN None ELSE Some(Least(inserted))
    /\ Called("max") =>
          last.val = IF inserted = {} THEN None ELSE Some(Greatest(inserted))

\* max() on a tree of four values whose least and greatest values both sit
\* below the root.
C7_Witness ==
    /\ Called("max")
    /\ Size(root) = 4
    /\ last.val # root_of(Self)
    /\ min(Self) # root_of(Self)
    /\ unwrap(last.val) = NumValues - 1

\* Each value of a sequence occurs once.
NoRepeats(seq) == \A i, j \in 1 .. Len(seq) : seq[i] = seq[j] => i = j

\* A traversal, as observed, follows the preorder of the tree it was
\* created from, and has produced all of it once it is exhausted.
FollowsPreorder(obs) ==
    /\ IsPrefix(Produced(obs.log), Preorder(obs.tree.root))
    /\ Exhausted(obs.log) =>
          /\ Produced(obs.log) = Preorder(obs.tree.root)
          /\ Len(Produced(obs.log)) = obs.tree.count
          /\ Range(Produced(obs.log)) = ValuesOf(obs.tree.root)
          /\ NoRepeats(Produced(obs.log))

\* C8: the sequence a traversal of any tree produces is its standard
\* preorder sequence (a node, then the preorder of its left subtree, then
\* that of its right subtree); every stored value appears exactly once, so
\* the sequence has count() elements.
C8_TraversalIsPreorder ==
    /\ ref_into_iter(Self).vec = Preorder(root)
    /\ into_iter(Self).vec = Preorder(root)
    /\ Len(ref_into_iter(Self).vec) = count_of(Self)
    /\ Range(ref_into_iter(Self).vec) = ValuesOf(root)
    /\ NoRepeats(ref_into_iter(Self).vec)
    /\ FollowsPreorder(iterObs)
    /\ FollowsPreorder(intoObs)

\* A borrowing traversal run to its end on a tree of four values whose
\* root has a left child and a right child with a child of its own.
C8_Witness ==
    /\ Exhausted(iterObs.log)
    /\ iterObs.tree.count = 4
    /\ is_some(unwrap(iterObs.tree.root).left)
    /\ is_some(unwrap(iterObs.tree.root).right)
    /\ Longest(unwrap(iterObs.tree.root).right) = 2

\* C9: for every tree the owning traversal (into_iter on the tree) and the
\* borrowing traversal (iter / into_iter on a reference) yield the same
\* values in the same order.
C9_OwningEqualsBorrowing ==
    /\ into_iter(Self).vec = ref_into_iter(Self).vec
    /\ into_iter(Self).vec = iter(Self).vec
    /\ iterObs.tree = intoObs.tree =>
          /\ \/ IsPrefix(Produced(iterObs.log), Produced(intoObs.log))
             \/ IsPrefix(Produced(intoObs.log), Produced(iterObs.log))
          /\ (Exhausted(iterObs.log) /\ Exhausted(intoObs.log)) =>
                Produced(iterObs.log) = Produced(intoObs.log)

\* The same tree of four values traversed to the end by reference and then
\* by value.
C9_Witness ==
    /\ iterObs.tree = intoObs.tree
    /\ Exhausted(iterObs.log)
    /\ Exhausted(intoObs.log)
    /\ intoObs.tree.count = 4
    /\ is_some(unwrap(intoObs.tree.root).left)
    /\ is_some(unwrap(intoObs.tree.root).right)

\* A traversal, as observed, yields at most count values, returns None on
\* every call after its first None, and yields no value twice.
NotRestartable(obs) ==
    /\ Cardinality({i \in 1 .. Len(obs.log) : is_some(obs.log[i])})
          <= obs.tree.count
    /\ \A i, j \in 1 .. Len(obs.log) :
          (i < j /\ is_none(obs.log[i])) => is_none(obs.log[j])
    /\ \A i, j \in 1 .. Len(obs.log) :
          (i < j /\ is_some(obs.log[i])) => obs.log[i] # obs.log[j]

\* C10: a traversal object is finite and not restartable: it yields at most
\* count values, once next has returned None every later call of next on
\* the same object returns None, and no value is yielded a second time.
C10_TraversalNotRestartable ==
    /\ NotRestartable(iterObs)
    /\ NotRestartable(intoObs)

\* The owning half of C10 taken alone.
OwningNotRestartable == NotRestartable(intoObs)

\* The comparison of a with b is undefined.
Incomparable(a, b) == partial_cmp(a, b) = "None"

\* BST ordering of every node under the partial order of T.
RECURSIVE IsPartialBST(_)
IsPartialBST(o) ==
    \/ is_none(o)
    \/ /\ \A x \in ValuesOf(unwrap(o).left) :
             partial_cmp(x, unwrap(o).value) = "Less"
       /\ \A x \in ValuesOf(unwrap(o).right) :
             partial_cmp(x, unwrap(o).value) = "Greater"
       /\ IsPartialBST(unwrap(o).left)
       /\ IsPartialBST(unwrap(o).right)

\* C11: insert(v) panics whenever v is incomparable with the value of some
\* node of the tree, for any partial order on the values and wherever that
\* node sits.
C11_InsertPanicsOnIncomparable ==
    (Called("insert") /\ \E x \in ValuesOf(last.pre.root) : Incomparable(Arg, x))
        => panicked

\* insert panicked on a value that has an order with the root and with the
\* root's child, and none with a node of the third level.
C11_Witness ==
    /\ Called("insert")
    /\ panicked
    /\ Size(root) = 3
    /\ Longest(root) = 3
    /\ \E x \in ValuesOf(root) : DepthOf(root, x) = 3 /\ Incomparable(Arg, x)
    /\ \A x \in ValuesOf(root) : DepthOf(root, x) < 3 => ~Incomparable(Arg, x)

\* C12: contains(t) panics whenever t is incomparable with the value of some
\* node of the tree, for any partial order on the values and wherever that
\* node sits.
C12_ContainsPanicsOnIncomparable ==
    (Called("contains") /\ \E x \in ValuesOf(root) : Incomparable(Arg, x))
        => (panicked /\ last.val = "panic")

\* contains panicked on a target that has an order with the root and none
\* with a deeper node.
C12_Witness ==
    /\ Called("contains")
    /\ panicked
    /\ ~Incomparable(Arg, unwrap(root).value)
    /\ Arg \in Values
    /\ Side \in ValuesOf(root)

\* C13: when insert panics on an incomparable value the tree is as it was
\* before the call: root, count and height are unchanged, so BST ordering
\* and the count invariant still hold.
C13_PanickedInsertLeavesTree ==
    (Called("insert") /\ panicked) =>
        /\ Self = last.pre
        /\ IsPartialBST(root)
        /\ count_of(Self) = Size(root)
        /\ height_of(Self) = Longest(root)

\* insert of a NaN panicked on a tree of three levels.
C13_Witness ==
    /\ Called("insert")
    /\ panicked
    /\ Arg = NaN
    /\ height = 3
    /\ Side \in ValuesOf(root)

\* C14: insert(v) on an empty tree of a value that is not comparable with
\* itself panics and leaves the tree empty; From<Vec> panics likewise when
\* it reaches such a value.
C14_EmptyInsertOfNaNPanics ==
    /\ (Called("insert") /\ is_none(last.pre.root) /\ Incomparable(Arg, Arg))
          => (panicked /\ is_none(root) /\ count = 0 /\ height = 0)
    /\ (Called("from") /\ \E i \in 1 .. Len(Arg) : Incomparable(Arg[i], Arg[i]))
          => panicked
    /\ (Called("from") /\ Arg # << >> /\ Incomparable(Arg[1], Arg[1]))
          => (is_none(from(Arg).root) /\ from(Arg).count = 0)

\* insert of a NaN panicked on a tree that a clear had emptied or that was
\* never filled.
C14_Witness ==
    /\ Called("insert")
    /\ is_none(last.pre.root)
    /\ Arg = NaN
    /\ panicked
    /\ is_none(root)

\* C15: insert(v) on an empty tree, fresh or just cleared, of a value that
\* is comparable with itself makes v the root, without children, and sets
\* count to 1 and height to 1.
C15_FirstInsertMakesRoot ==
    (Called("insert") /\ is_none(last.pre.root) /\ ~Incomparable(Arg, Arg)) =>
        /\ ~panicked
        /\ root = Some([value |-> Arg, left |-> None, right |-> None])
        /\ count = 1
        /\ height = 1

\* The first insert into an empty tree, of the value off the chain.
C15_Witness ==
    /\ Called("insert")
    /\ is_none(last.pre.root)
    /\ Arg = Side
    /\ root_of(Self) = Some(Side)
    /\ count = 1

\* The tree that calling insert once per element of seq, in order, makes of
\* tree: the last call is made on what the calls before it have made.
RECURSIVE Inserts(_, _)
Inserts(tree, seq) ==
    IF seq = << >> THEN tree
    ELSE TreeOf(insert(Inserts(tree, SubSeq(seq, 1, Len(seq) - 1)),
                       seq[Len(seq)]))

\* C16: clear() leaves the tree in the empty state (root absent, count 0,
\* height 0), which is the state BinaryTree::new() produces, and every
\* sequence of inserts made after it builds the tree it builds on a freshly
\* created tree.
C16_ClearResetsToNew ==
    Called("clear") =>
        /\ root = None /\ count = 0 /\ height = 0
        /\ Self = new
        /\ \A seq \in SeqsUpTo(Values, MaxVecLen) :
              Inserts(Self, seq) = Inserts(new, seq)

\* clear() has been called on a tree of three levels.
C16_Witness ==
    /\ Called("clear")
    /\ last.pre.height >= 3
    /\ last.pre.count >= 3
    /\ is_none(root)

\* C17: is_empty() returns true exactly when no insert has completed since
\* the tree was created or last cleared.
C17_IsEmptyIffNoInsert ==
    /\ is_empty(Self) <=> (inserted = {})
    /\ Called("is_empty") => (last.val <=> (last.had = {}))

\* is_empty() has answered false on a tree that holds a value of the partial
\* order outside the chain.
C17_Witness ==
    /\ Called("is_empty")
    /\ last.val = FALSE
    /\ Side \in inserted
    /\ ~panicked

\* C18: from(vec), from_iter(seq) and extend(seq) on an empty tree make
\* exactly the tree that insert, called once per element in order, makes of
\* an empty tree, and extend(seq) on a tree that holds values makes the tree
\* that those inserts make of it.
C18_BulkIsRepeatedInsert ==
    /\ Called("from") => Self = Inserts(new, Arg)
    /\ Called("from_iter") => Self = Inserts(new, Arg)
    /\ Called("extend") => Self = Inserts(last.pre, Arg)
    /\ \A items \in SeqsUpTo(Values, MaxExtendLen) :
          TreeOf(extend(new, items)) = Inserts(new, items)

\* extend has added two values to a tree that held two.
C18_Witness ==
    /\ Called("extend")
    /\ last.pre.count >= 2
    /\ Len(Arg) = 2
    /\ count = last.pre.count + 2

\* The rearrangements of a sequence.
Perms(seq) ==
    {[i \in 1 .. Len(seq) |-> seq[f[i]]] :
        f \in {g \in [1 .. Len(seq) -> 1 .. Len(seq)] :
                  \A i, j \in 1 .. Len(seq) : g[i] = g[j] => i = j}}

\* C19: over a totally ordered element type, a tree built from a sequence and
\* a tree built from any rearrangement of it hold the same set of values,
\* have the same count and give the same contains result for every value.
C19_ContentIsOrderIndependent ==
    Called("from") =>
        \A p \in Perms(Arg) :
            LET other == TreeOf(from(p))
            IN  /\ ValuesOf(other.root) = ValuesOf(root)
                /\ other.count = count
                /\ \A v \in Values : contains(other, v) = contains(Self, v)

\* A tree has been built from three values of which a rearrangement makes a
\* tree of another shape.
C19_Witness ==
    /\ Called("from")
    /\ Len(Arg) = 3
    /\ count = 3
    /\ \E p \in Perms(Arg) : from(p).root # root

\* The calls that only read the tree.
ReadOps ==
    {"contains", "min", "max", "root", "count", "height", "is_empty", "iter",
     "Iter::next"}

\* C20: contains, min, max, root, count, height, is_empty, iter() and every
\* next() on the borrowing traversal leave root, count and height as they
\* were.
C20_ReadsLeaveTree ==
    /\ last.op \in ReadOps => Self = last.pre
    /\ is_some(it) => Self = iterObs.tree

\* The borrowing traversal of a tree of three values has been run to its
\* end.
C20_Witness ==
    /\ Called("Iter::next")
    /\ Exhausted(iterObs.log)
    /\ count >= 3
    /\ ~panicked

\* The text of the tree built from << 1, 0, 2 >>: the mirror of its fields.
JsonOfThree ==
    << "{", "\"root\"", ":",
         "{", "\"value\"", ":", "1", ",",
              "\"left\"", ":",
                 "{", "\"value\"", ":", "0", ",", "\"left\"", ":", "null",
                      ",", "\"right\"", ":", "null", "}", ",",
              "\"right\"", ":",
                 "{", "\"value\"", ":", "2", ",", "\"left\"", ":", "null",
                      ",", "\"right\"", ":", "null", "}",
         "}", ",",
       "\"count\"", ":", "3", ",", "\"height\"", ":", "2", "}" >>

\* C21: serialization round-trips.  Whatever root the tree has, and whatever
\* numbers its count and height fields hold, reading back the text written
\* for it gives a tree equal to it; the text mirrors the fields root, count,
\* height and, per node, value, left, right.
C21_SerdeRoundTrip ==
    /\ \A c, h \in 0 .. UsizeMax :
          LET tree == [root |-> root, count |-> c, height |-> h]
          IN  from_str(to_string(tree)) = Parsed(tree, << >>)
    /\ (Called("from_str") /\ ~panicked) => Self = last.pre
    /\ to_string(Inserts(new, << 1, 0, 2 >>)) = JsonOfThree

\* A tree of three levels whose root has both children has been read back
\* from the text written for it.
C21_Witness ==
    /\ Called("from_str")
    /\ ~panicked
    /\ from_str(Arg).ok
    /\ height >= 3
    /\ is_some(root)
    /\ is_some(unwrap(root).left)
    /\ is_some(unwrap(root).right)

\* How the call of insert that has just ended went: the arm that ended it,
\* `level` and the cursor at that moment.
Outcome == unwrap(last.val)

\* A call of insert has ended and nothing was called since.
InsertEnded == Called("insert") /\ is_none(walk) /\ is_some(last.val)

\* While insert is in its loop the cursor is one level further down per
\* iteration made, on a node of the tree; when the call has ended it made at
\* most height iterations and ended in one of the three ways, with the tree
\* the whole call is to leave.
WalkBounded ==
    /\ is_some(walk) =>
          /\ Len(unwrap(walk).cursor) = unwrap(walk).level - 2
          /\ unwrap(walk).level - 1 <= height
    /\ InsertEnded =>
          /\ Outcome.kind \in {"root", "attached", "return", "panic"}
          /\ Outcome.level = 1 <=> is_none(last.pre.root)
          /\ Outcome.kind = "root" => is_none(last.pre.root)
          /\ Outcome.level - 1 <= last.pre.height
          /\ Len(Outcome.cursor) = usize_max(Outcome.level, 2) - 2
          /\ [root |-> root, count |-> count, height |-> height,
              panicked |-> panicked] = insert(last.pre, Arg)

\* C22: every call of insert terminates.  The walk goes down one level per
\* iteration of the loop and ends, after at most height iterations, by
\* attaching a leaf, by finding an equal value or by panicking.
C22_InsertTerminates ==
    /\ []WalkBounded
    /\ is_some(walk) ~> is_none(walk)

\* An insert has walked the longest path of a tree of three levels and has
\* attached its leaf below it.
C22_Witness ==
    /\ InsertEnded
    /\ Outcome.kind = "attached"
    /\ last.pre.height >= 3
    /\ Outcome.level - 1 = last.pre.height

\* The (sub)tree without its leaf that holds v, found without using the
\* order; a node holding v that has a child stays.
RECURSIVE WithoutLeaf(_, _)
WithoutLeaf(o, v) ==
    IF is_none(o) THEN None
    ELSE IF unwrap(o).value = v /\ is_none(unwrap(o).left)
                                /\ is_none(unwrap(o).right) THEN None
    ELSE Some([value |-> unwrap(o).value,
               left |-> WithoutLeaf(unwrap(o).left, v),
               right |-> WithoutLeaf(unwrap(o).right, v)])

\* The node of the (sub)tree one of whose children holds v, found without
\* using the order.
RECURSIVE ParentOf(_, _)
ParentOf(o, v) ==
    IF is_none(o) THEN None
    ELSE IF \/ is_some(unwrap(o).left) /\ unwrap(unwrap(o).left).value = v
            \/ is_some(unwrap(o).right) /\ unwrap(unwrap(o).right).value = v
         THEN o
    ELSE IF is_some(ParentOf(unwrap(o).left, v))
         THEN ParentOf(unwrap(o).left, v)
    ELSE ParentOf(unwrap(o).right, v)

\* The last node on the BST search path of v in a non-empty (sub)tree that
\* does not hold v: the node where the side v belongs to is free.
RECURSIVE SearchEnd(_, _)
SearchEnd(o, v) ==
    IF v < unwrap(o).value
    THEN IF is_none(unwrap(o).left) THEN o ELSE SearchEnd(unwrap(o).left, v)
    ELSE IF is_none(unwrap(o).right) THEN o ELSE SearchEnd(unwrap(o).right, v)

\* C23: insert(v) of a value the tree does not hold only adds one leaf.  v
\* becomes the left child (when less) or the right child (when greater) of
\* the last node on its search path, and every node there was keeps its
\* value, its parent and its other child: the tree before the call is the
\* tree after it without that leaf.
C23_InsertOnlyAddsLeaf ==
    (Called("insert") /\ Arg \notin last.had) =>
        /\ NodeOf(root, Arg) = Some(Node_new(Arg))
        /\ WithoutLeaf(root, Arg) = last.pre.root
        /\ Size(root) = Size(last.pre.root) + 1
        /\ is_some(last.pre.root) =>
              LET parent == unwrap(ParentOf(root, Arg))
                  before == unwrap(SearchEnd(last.pre.root, Arg))
              IN  /\ parent.value = before.value
                  /\ Arg < parent.value =>
                        /\ parent.left = Some(Node_new(Arg))
                        /\ is_none(before.left)
                        /\ parent.right = before.right
                  /\ Arg > parent.value =>
                        /\ parent.right = Some(Node_new(Arg))
                        /\ is_none(before.right)
                        /\ parent.left = before.left

\* A new value has been attached on the third level, as the right child of
\* a node that has a left child.
C23_Witness ==
    /\ Called("insert")
    /\ Arg \notin last.had
    /\ DepthOf(root, Arg) = 3
    /\ is_some(ParentOf(root, Arg))
    /\ is_some(unwrap(ParentOf(root, Arg)).left)
    /\ unwrap(ParentOf(root, Arg)).right = Some(Node_new(Arg))

\* The node the cursor of the running insert points to.
AtCursor == NodeAt(unwrap(root), unwrap(walk).cursor)

\* C24: in every execution of insert, set_left is called only on a node
\* whose left child is absent and set_right only on a node whose right child
\* is absent, so that insert never overwrites, and thereby discards, a
\* subtree.
C24_SetOnlyOnAbsentChild ==
    /\ is_some(walk) =>
          LET arm == insert_arm(AtCursor, unwrap(walk).value)
          IN  /\ arm = "set_left" => is_none(AtCursor.left)
              /\ arm = "set_right" => is_none(AtCursor.right)
    /\ (InsertEnded /\ Outcome.kind = "attached") =>
          LET before == NodeAt(unwrap(last.pre.root), Outcome.cursor)
              after == NodeAt(unwrap(root), Outcome.cursor)
          IN  /\ after.left # before.left => is_none(before.left)
              /\ after.right # before.right => is_none(before.right)
              /\ ValuesOf(last.pre.root) \subseteq ValuesOf(root)
              /\ Size(root) = Size(last.pre.root) + 1

\* set_left has been called on a node below the root that has a right child
\* and no left child.
C24_Witness ==
    /\ InsertEnded
    /\ Outcome.kind = "attached"
    /\ Outcome.level >= 3
    /\ is_none(NodeAt(unwrap(last.pre.root), Outcome.cursor).left)
    /\ is_some(NodeAt(unwrap(last.pre.root), Outcome.cursor).right)
    /\ NodeAt(unwrap(root), Outcome.cursor).left = Some(Node_new(Arg))

\* Some value held by the tree lies strictly between a and b.
HasBetween(tree, a, b) ==
    \E c \in ValuesOf(tree.root) : (a < c /\ c < b) \/ (b < c /\ c < a)

\* The values the tree does not hold.
Absent == Values \ ValuesOf(root)

\* C25: for two distinct totally ordered values a and b the tree does not
\* hold, insert(a) then insert(b) makes the same tree (shape, count, height)
\* as insert(b) then insert(a) exactly when the tree holds a value strictly
\* between a and b.
C25_InsertsCommuteIffBetween ==
    \A a, b \in Absent :
        a # b =>
            ((Inserts(Self, << a, b >>) = Inserts(Self, << b, a >>))
                <=> HasBetween(Self, a, b))

\* A tree of two values that has been grown by insert lacks a pair of values
\* with one of its values between them, and their inserts commute.
C25_Witness ==
    /\ Called("insert")
    /\ count = 2
    /\ \E a, b \in Absent :
          /\ a # b
          /\ HasBetween(Self, a, b)
          /\ Inserts(Self, << a, b >>) = Inserts(Self, << b, a >>)

\* The values an IntoIter yields when next is called until it returns None.
RECURSIVE Drain(_)
Drain(i) ==
    LET res == IntoIter_next(i)
    IN  IF is_none(res.val) THEN << >>
        ELSE << unwrap(res.val) >> \o Drain(res.it)

\* C26: rebuilding from a traversal reproduces the tree.  For a tree built
\* by inserts of totally ordered values, BinaryTree::from_iter(T.into_iter())
\* is a tree equal to T in shape, count and height.
C26_RebuildFromTraversal ==
    /\ live => TreeOf(from_iter(Drain(into_iter(Self)))) = Self
    /\ Exhausted(intoObs.log) =>
          TreeOf(from_iter(Produced(intoObs.log))) = intoObs.tree

\* The owning traversal of a tree of three levels whose root has both
\* children has been run to its end.
C26_Witness ==
    /\ Called("IntoIter::next")
    /\ Exhausted(intoObs.log)
    /\ intoObs.tree.height >= 3
    /\ is_some(unwrap(intoObs.tree.root).left)
    /\ is_some(unwrap(intoObs.tree.root).right)

\* C27: in every state reached by insert and clear, height and count bound
\* each other, height <= count and count <= 2^height - 1; between two clears
\* height never decreases, and one insert raises it by at most 1.
C27_HeightAndCountBounds ==
    /\ height <= count
    /\ count <= 2 ^ height - 1
    /\ Called("insert") =>
          /\ height >= last.pre.height
          /\ height <= last.pre.height + 1

\* An insert has filled the second level: count has reached 2^height - 1
\* and the height has stayed.
C27_Witness ==
    /\ Called("insert")
    /\ ~panicked
    /\ height = 2
    /\ count = 3
    /\ last.pre.height = 2
    /\ last.pre.count = 2

\* C28: root() returns the first value inserted since the tree was created
\* or last cleared; no later insert changes what it returns, only clear
\* does, to None.
C28_RootIsFirstInserted ==
    /\ Called("root") =>
          /\ last.val = root_of(Self)
          /\ is_none(last.val) <=> (inserted = {})
          /\ \A seq \in SeqsUpTo(Values, MaxVecLen) :
                seq # << >> =>
                    root_of(Inserts(clear(Self), seq)) = Some(seq[1])
    /\ (Called("insert") /\ ~panicked) =>
          root_of(Self) = IF last.had = {} THEN Some(Arg)
                          ELSE root_of(last.pre)
    /\ Called("clear") => is_none(root_of(Self))
    /\ (live /\ last.op \notin {"insert", "clear", "new"}) =>
          root_of(Self) = root_of(last.pre)

\* root() has been called on a tree of three values or more and has
\* returned a value that is neither the least nor the greatest of them.
C28_Witness ==
    /\ Called("root")
    /\ count >= 3
    /\ is_some(last.val)
    /\ last.val # min(Self)
    /\ last.val # max(Self)

\* C29: in every state reached by new, insert and clear the three signs of
\* emptiness agree: root is absent exactly when count is 0, and exactly when
\* height is 0.
C29_EmptinessIndicatorsAgree ==
    /\ is_none(root) <=> (count = 0)
    /\ (count = 0) <=> (height = 0)
    /\ is_none(root) <=> (height = 0)

\* A tree of one value has been cleared, and the three signs say empty.
C29_Witness ==
    /\ Called("clear")
    /\ last.pre.count = 1
    /\ last.pre.height = 1
    /\ is_some(last.pre.root)
    /\ is_none(root) /\ count = 0 /\ height = 0

\* The Iter the client holds.
TheIter == unwrap(it)

\* C30: every call of next on the borrowing iterator moves its index up by
\* exactly 1, whether or not it yields a value: the index is not capped at
\* the number of values collected.  So, as long as the index has not gone
\* round its integer range, the k-th call returns element k-1 of the
\* collected preorder sequence when there is one and None otherwise.
C30_IndexCountsEveryNext ==
    is_some(it) =>
        /\ TheIter.vec = Preorder(iterObs.tree.root)
        /\ TheIter.index = Len(iterObs.log) % UsizeModulus
        /\ Len(iterObs.log) <= UsizeMax => TheIter.index = Len(iterObs.log)
        /\ \A k \in 1 .. Len(iterObs.log) :
              k <= UsizeModulus =>
                  iterObs.log[k] = IF k <= Len(TheIter.vec)
                                   THEN Some(TheIter.vec[k])
                                   ELSE None

\* next has been called, without a wrap of the index, at least twice more
\* than the tree of two or more values has values.
C30_Witness ==
    /\ Called("Iter::next")
    /\ is_some(it)
    /\ ~panicked
    /\ count >= 2
    /\ Len(iterObs.log) >= count + 2
    /\ Len(iterObs.log) <= UsizeMax
    /\ TheIter.index = Len(iterObs.log)
    /\ TheIter.index > Len(TheIter.vec)

====
